---------------------------- MODULE Spec2Model ----------------------------
(***************************************************************************)
(* telegram-auth-rs: src/src/lib.rs.                                       *)
(*                                                                         *)
(* validate(input, bot_token) parses a JSON text, builds the               *)
(* data-check-string of the object's scalar fields and compares the        *)
(* lowercase-hex HMAC-SHA256 of it (key = SHA256(bot_token)) with the      *)
(* "hash" field.                                                           *)
(*                                                                         *)
(* Strings are sequences of bytes (Rust String / &str, compared            *)
(* byte-wise).  A JSON number is serde_json's N: PosInt(u64), NegInt(i64)  *)
(* or Float(f64); its magnitude is kept as the sequence of its decimal     *)
(* digits, so that the 64-bit limits are the real ones.                    *)
(* SHA-256 and HMAC are modelled as ideal (collision-free) functions: an   *)
(* injective framing of their arguments.                                   *)
(***************************************************************************)
EXTENDS Integers, Sequences, FiniteSets, TLC

VARIABLES
    input,              \* validate's `input`: the JSON text, as its token tree
    bot_token,          \* validate's `bot_token`
    preserve_order,     \* serde_json built with the preserve_order feature
    pc,                 \* position in validate
    value,              \* the serde_json::Value parsed from input
    kv,                 \* the BTreeMap<String, String> of line 26
    lines,              \* the Vec<String> of line 38
    check_hash,         \* validate's `check_hash`
    data_check_string,  \* validate's `data_check_string`
    result,             \* validate's `result`: the hex text of the tag
    ret                 \* what validate returns

vars == <<input, bot_token, preserve_order, pc, value, kv, lines,
          check_hash, data_check_string, result, ret>>

-----------------------------------------------------------------------------
(* Bounds of the model *)

\* The most members an object of the input has, the signed "hash" member
\* not counted.
MaxMembers == 2

-----------------------------------------------------------------------------
(* Bytes and strings *)

EQ == <<61>>         \* "="
NL == <<10>>         \* "\n"
MINUS == <<45>>      \* "-"
HASH == <<104, 97, 115, 104>>   \* "hash"

Min(a, b) == IF a <= b THEN a ELSE b

\* Rust's Ord for String: byte-wise lexicographic, a proper prefix first.
BytesLess(a, b) ==
    \E i \in 1..(Min(Len(a), Len(b)) + 1) :
        /\ \A j \in 1..(i - 1) : a[j] = b[j]
        /\ \/ i > Len(a) /\ i <= Len(b)
           \/ i <= Len(a) /\ i <= Len(b) /\ a[i] < b[i]

StartsWith(s, p) == Len(p) <= Len(s) /\ SubSeq(s, 1, Len(p)) = p

\* Option<T>: None is <<>>, Some(x) is <<x>>.
None == <<>>
Some(x) == <<x>>

-----------------------------------------------------------------------------
(* serde_json::Value *)

NoNum == [tag |-> "none", mag |-> <<>>]

PosInt(digits) == [tag |-> "PosInt", mag |-> digits]
NegInt(digits) == [tag |-> "NegInt", mag |-> digits]
Float == [tag |-> "Float", mag |-> <<>>]

VNull == [kind |-> "Null", num |-> NoNum, str |-> <<>>]
VBool == [kind |-> "Bool", num |-> NoNum, str |-> <<>>]
VArray == [kind |-> "Array", num |-> NoNum, str |-> <<>>]
VNested == [kind |-> "Object", num |-> NoNum, str |-> <<>>]
VNumber(n) == [kind |-> "Number", num |-> n, str |-> <<>>]
VString(s) == [kind |-> "String", num |-> NoNum, str |-> s]

\* i64::MAX = 9223372036854775807, by its decimal digits.
I64MaxDigits == <<9, 2, 2, 3, 3, 7, 2, 0, 3, 6, 8, 5, 4, 7, 7, 5, 8, 0, 7>>

\* a <= b for two magnitudes given by their digits (no leading zeros).
MagLeq(a, b) ==
    \/ Len(a) < Len(b)
    \/ Len(a) = Len(b) /\ (a = b \/ BytesLess(a, b))

\* Number::as_i64: a PosInt only when it fits i64, a NegInt always, a Float
\* never.  The i64 is its sign and its magnitude's digits.
AsI64(n) ==
    CASE n.tag = "PosInt" ->
            IF MagLeq(n.mag, I64MaxDigits)
            THEN Some([neg |-> FALSE, mag |-> n.mag]) ELSE None
      [] n.tag = "NegInt" -> Some([neg |-> TRUE, mag |-> n.mag])
      [] OTHER -> None

\* i64::to_string: the digits in ASCII, "-" before a negative one.
I64ToString(i) ==
    (IF i.neg THEN MINUS ELSE <<>>) \o [k \in 1..Len(i.mag) |-> 48 + i.mag[k]]

-----------------------------------------------------------------------------
(* The JSON layer: serde_json::from_str *)

RECURSIVE KeyIndex(_, _)
\* The index of key in the map's entries, 0 when absent.
KeyIndex(map, key) ==
    IF map = <<>> THEN 0
    ELSE IF map[Len(map)].key = key THEN Len(map)
    ELSE KeyIndex(SubSeq(map, 1, Len(map) - 1), key)

\* The number of entries whose key is below `key`.
Rank(map, key) == Cardinality({i \in 1..Len(map) : BytesLess(map[i].key, key)})

\* Where a new key goes: in key order (BTreeMap), or last (IndexMap, with
\* serde_json's preserve_order).
InsertAt(map, e, sorted) ==
    IF sorted
    THEN SubSeq(map, 1, Rank(map, e.key)) \o <<e>>
            \o SubSeq(map, Rank(map, e.key) + 1, Len(map))
    ELSE Append(map, e)

\* Map::insert: a key already there keeps its place and takes the new value.
MapInsert(map, key, val, sorted) ==
    IF KeyIndex(map, key) # 0
    THEN [map EXCEPT ![KeyIndex(map, key)] = [key |-> key, val |-> val]]
    ELSE InsertAt(map, [key |-> key, val |-> val], sorted)

RECURSIVE BuildMap(_, _)
\* The object's members inserted in source order.
BuildMap(members, sorted) ==
    IF members = <<>> THEN <<>>
    ELSE MapInsert(BuildMap(SubSeq(members, 1, Len(members) - 1), sorted),
                   members[Len(members)].key, members[Len(members)].value,
                   sorted)

\* serde_json::from_str(input): Err for a text that is no JSON, else the Value.
\* An object is the sequence of its entries in iteration order.
FromStr(text, po) ==
    CASE text.kind = "Garbage" -> [tag |-> "Err", top |-> "none", object |-> <<>>]
      [] text.kind = "Object" ->
            [tag |-> "Ok", top |-> "Object",
             object |-> BuildMap(text.members, ~po)]
      [] OTHER -> [tag |-> "Ok", top |-> text.kind, object |-> <<>>]

-----------------------------------------------------------------------------
(* extract_data_check_string *)

\* Variant of ScalarText: the integer's sign is lost (its magnitude printed).
ScalarTextNoSign(v) ==
    CASE v.kind = "Number" ->
            IF AsI64(v.num) = None THEN None
            ELSE Some(I64ToString([AsI64(v.num)[1] EXCEPT !.neg = FALSE]))
      [] v.kind = "String" -> Some(v.str)
      [] OTHER -> None

\* Variant of ScalarText: a boolean is kept, as the text "true".
ScalarTextBool(v) ==
    CASE v.kind = "Number" ->
            IF AsI64(v.num) = None THEN None
            ELSE Some(I64ToString(AsI64(v.num)[1]))
      [] v.kind = "String" -> Some(v.str)
      [] v.kind = "Bool" -> Some(<<116, 114, 117, 101>>)
      [] OTHER -> None

\* Lines 19-23: the text of a scalar value, None for every other kind.
ScalarText(v) ==
    CASE v.kind = "Number" ->
            IF AsI64(v.num) = None THEN None
            ELSE Some(I64ToString(AsI64(v.num)[1]))
      [] v.kind = "String" -> Some(v.str)
      [] OTHER -> None

\* Lines 17-25: filter_map over the object's entries, in iteration order.
FilterMap(object) ==
    LET kept == SelectSeq(object, LAMBDA e : ScalarText(e.val) # None)
    IN  [i \in 1..Len(kept) |->
            [key |-> kept[i].key, val |-> ScalarText(kept[i].val)[1]]]

\* Variant of CollectBTreeMap: the pairs collected in iteration order (a Vec).
CollectInOrder(pairs) == pairs

RECURSIVE CollectBTreeMap(_)
\* Line 26: collect::<BTreeMap<String, String>>().
CollectBTreeMap(pairs) ==
    IF pairs = <<>> THEN <<>>
    ELSE MapInsert(CollectBTreeMap(SubSeq(pairs, 1, Len(pairs) - 1)),
                   pairs[Len(pairs)].key, pairs[Len(pairs)].val, TRUE)

\* Variant of GetHash: an absent "hash" read as the empty text.
GetHashOrEmpty(map) ==
    IF KeyIndex(map, HASH) = 0 THEN Some(<<>>)
    ELSE Some(map[KeyIndex(map, HASH)].val)

\* Lines 28-29: kv.get("hash").
GetHash(map) ==
    IF KeyIndex(map, HASH) = 0 THEN None ELSE Some(map[KeyIndex(map, HASH)].val)

\* Line 37: format!("{}={}", key, value).
FormatLine(key, val) == key \o EQ \o val

\* Variant of Lines: the "hash" entry is not filtered out.
LinesAll(map) == [i \in 1..Len(map) |-> map[i].key \o EQ \o map[i].val]

\* Lines 35-38: the lines of the entries other than "hash", in map order.
Lines(map) ==
    LET rest == SelectSeq(map, LAMBDA e : e.key # HASH)
    IN  [i \in 1..Len(rest) |-> FormatLine(rest[i].key, rest[i].val)]

RECURSIVE JoinTrailing(_, _)
\* Variant of Join: the separator after every line, the last one too.
JoinTrailing(ls, sep) ==
    IF ls = <<>> THEN <<>>
    ELSE JoinTrailing(SubSeq(ls, 1, Len(ls) - 1), sep) \o ls[Len(ls)] \o sep

RECURSIVE Join(_, _)
\* Line 39: join("\n").
Join(ls, sep) ==
    IF ls = <<>> THEN <<>>
    ELSE IF Len(ls) = 1 THEN ls[1]
    ELSE Join(SubSeq(ls, 1, Len(ls) - 1), sep) \o sep \o ls[Len(ls)]

ErrInput == [tag |-> "Err", err |-> "InvalidInput", kv |-> <<>>,
             lines |-> <<>>, hash |-> <<>>, dcs |-> <<>>]

\* Lines 15-41: the Value::Object arm.
ExtractObject(object) ==
    LET map == CollectBTreeMap(FilterMap(object))
    IN  IF GetHash(map) = None
        THEN [ErrInput EXCEPT !.kv = map]
        ELSE [tag |-> "Ok", err |-> "none", kv |-> map, lines |-> Lines(map),
              hash |-> GetHash(map)[1], dcs |-> Join(Lines(map), NL)]

\* Variant of ExtractDataCheckString: a value that is no object read as an
\* empty payload with an empty hash.
ExtractAnyValue(v) ==
    IF v.top = "Object" THEN ExtractObject(v.object)
    ELSE [tag |-> "Ok", err |-> "none", kv |-> <<>>, lines |-> <<>>,
          hash |-> <<>>, dcs |-> <<>>]

\* Lines 13-44.
ExtractDataCheckString(v) ==
    IF v.top = "Object" THEN ExtractObject(v.object) ELSE ErrInput

-----------------------------------------------------------------------------
(* validate *)

\* Sha256::digest, as an ideal hash: an injective framing of the message.
Sha256Digest(bytes) == <<83>> \o bytes

\* Line 51.
BotTokenHash(token) == Sha256Digest(token)

\* Lines 53-54: Hmac::new_from_slice takes a key of any length.
NewFromSlice(key) == Some(key)

\* Lines 55 and 57 (finalize): the tag, as an ideal keyed hash.
MacFinalize(key, msg) == <<Len(key)>> \o key \o msg

HexDigit(n) == IF n < 10 THEN 48 + n ELSE 87 + n

\* hex::encode: two lowercase hex digits a byte.
HexEncode(bytes) ==
    [i \in 1..(2 * Len(bytes)) |->
        IF i % 2 = 1 THEN HexDigit(bytes[(i + 1) \div 2] \div 16)
        ELSE HexDigit(bytes[i \div 2] % 16)]

\* Lines 51-57.
ComputeResult(dcs, token) ==
    HexEncode(MacFinalize(NewFromSlice(BotTokenHash(token))[1], dcs))

\* Variant of Compare: a mismatch reported as InvalidInput.
CompareAsInput(res, hash) == IF res = hash THEN "Ok" ELSE "InvalidInput"

\* Lines 59-63.
Compare(res, hash) == IF res = hash THEN "Ok" ELSE "InvalidHash"

\* Lines 46-64: validate as a function of its arguments.
Validate(text, token, po) ==
    LET parsed == FromStr(text, po)
        ex == ExtractDataCheckString(parsed)
    IN  IF parsed.tag = "Err" THEN "InvalidInput"
        ELSE IF ex.tag = "Err" THEN "InvalidInput"
        ELSE IF NewFromSlice(BotTokenHash(token)) = None THEN "InvalidInput"
        ELSE Compare(ComputeResult(ex.dcs, token), ex.hash)

-----------------------------------------------------------------------------
(* The inputs validate is called with *)

K_B == <<66>>           \* "B"
K_a == <<97>>           \* "a"
K_id == <<105, 100>>    \* "id"

Keys == {K_B, K_a, K_id}

Int7 == VNumber(PosInt(<<7>>))
Neg7 == VNumber(NegInt(<<7>>))
\* i64::MAX and i64::MAX + 1, both JSON integers serde_json keeps as PosInt.
IntMax == VNumber(PosInt(I64MaxDigits))
IntBig == VNumber(PosInt([I64MaxDigits EXCEPT ![19] = 8]))
Text7 == VString(<<55>>)        \* "7"
TextX == VString(<<120>>)       \* "x"
TextNL == VString(NL)           \* "\n"

\* Every kind of value, on the key "a".
AValues == {Int7, Neg7, IntMax, IntBig, Text7, TextNL,
            VNumber(Float), VNull, VBool, VArray, VNested}

\* A "hash" written by hand: a wrong digest, a number, a non-scalar.
HashValues == {TextX, Int7, VNull}

Members ==
    [key : {K_a}, value : AValues]
        \cup [key : {K_B}, value : {Int7}]
        \cup [key : {K_id}, value : {Text7, VNull}]
        \cup [key : {HASH}, value : HashValues]

RECURSIVE ListsUpTo(_)
ListsUpTo(n) ==
    IF n = 0 THEN {<<>>}
    ELSE ListsUpTo(n - 1)
            \cup {Append(l, m) : l \in {x \in ListsUpTo(n - 1) : Len(x) = n - 1},
                                 m \in Members}

BaseLists == ListsUpTo(MaxMembers)

\* The bot tokens: "1", the one the provider signs with, and "2".
ProviderToken == <<49>>
Secrets == {ProviderToken, <<50>>}

(* The identity provider: it signs the newline-joined "key=value" lines of    *)
(* the payload's Integer and Text fields other than "hash", in ascending key  *)
(* order, every JSON integer in plain decimal.                                *)

FieldKeys(members) == {members[i].key : i \in 1..Len(members)}

LastIndex(members, key) ==
    CHOOSE i \in 1..Len(members) :
        /\ members[i].key = key
        /\ \A j \in (i + 1)..Len(members) : members[j].key # key

FieldValue(members, key) == members[LastIndex(members, key)].value

IsInteger(v) == v.kind = "Number" /\ v.num.tag \in {"PosInt", "NegInt"}
IsText(v) == v.kind = "String"

DecimalText(v) ==
    (IF v.num.tag = "NegInt" THEN MINUS ELSE <<>>)
        \o [k \in 1..Len(v.num.mag) |-> 48 + v.num.mag[k]]

FieldText(v) == IF IsText(v) THEN v.str ELSE DecimalText(v)

SignedKeys(members) ==
    {k \in FieldKeys(members) \ {HASH} :
        IsInteger(FieldValue(members, k)) \/ IsText(FieldValue(members, k))}

LeastKey(ks) == CHOOSE k \in ks : \A o \in ks \ {k} : BytesLess(k, o)

RECURSIVE CanonicalOf(_, _)
CanonicalOf(members, ks) ==
    IF ks = {} THEN <<>>
    ELSE LET k == LeastKey(ks)
             line == k \o EQ \o FieldText(FieldValue(members, k))
         IN  IF ks = {k} THEN line
             ELSE line \o NL \o CanonicalOf(members, ks \ {k})

CanonicalString(members) == CanonicalOf(members, SignedKeys(members))

ProviderHash(members, secret) ==
    VString(HexEncode(MacFinalize(Sha256Digest(secret), CanonicalString(members))))

InsertMember(members, pos, m) ==
    SubSeq(members, 1, pos) \o <<m>> \o SubSeq(members, pos + 1, Len(members))

\* The member lists: those written by hand, and those the provider signed,
\* its "hash" first or last.
Payloads ==
    BaseLists
        \cup UNION {{InsertMember(b, pos, [key |-> HASH,
                                           value |-> ProviderHash(b, ProviderToken)]) :
                        pos \in {0, Len(b)}} : b \in BaseLists}

Object(members) == [kind |-> "Object", members |-> members]

\* Texts that are no JSON, or JSON but not an object.
NonObjects ==
    [kind : {"Garbage", "String", "Number", "Array", "Bool", "Null"},
     members : {<<>>}]

Inputs == NonObjects \cup {Object(ms) : ms \in Payloads}

-----------------------------------------------------------------------------
(* The state machine: one call of validate *)

NoValue == [tag |-> "none", top |-> "none", object |-> <<>>]

Init ==
    /\ input \in Inputs
    /\ bot_token \in Secrets
    /\ preserve_order \in BOOLEAN
    /\ pc = "start"
    /\ value = NoValue
    /\ kv = <<>>
    /\ lines = <<>>
    /\ check_hash = <<>>
    /\ data_check_string = <<>>
    /\ result = <<>>
    /\ ret = "none"

\* Lines 47-48: serde_json::from_str, its error mapped to InvalidInput.
Parse ==
    /\ pc = "start"
    /\ value' = FromStr(input, preserve_order)
    /\ IF value'.tag = "Err"
       THEN pc' = "done" /\ ret' = "InvalidInput"
       ELSE pc' = "parsed" /\ ret' = ret
    /\ UNCHANGED <<input, bot_token, preserve_order, kv, lines, check_hash,
                   data_check_string, result>>

\* Line 49 (and 13-44): extract_data_check_string, its error returned.
Extract ==
    /\ pc = "parsed"
    /\ LET ex == ExtractDataCheckString(value)
       IN  /\ kv' = ex.kv
           /\ lines' = ex.lines
           /\ check_hash' = ex.hash
           /\ data_check_string' = ex.dcs
           /\ IF ex.tag = "Err"
              THEN pc' = "done" /\ ret' = ex.err
              ELSE pc' = "extracted" /\ ret' = ret
    /\ UNCHANGED <<input, bot_token, preserve_order, value, result>>

\* Lines 51-57: the key, the tag and its hex text.
ComputeMac ==
    /\ pc = "extracted"
    /\ IF NewFromSlice(BotTokenHash(bot_token)) = None
       THEN pc' = "done" /\ ret' = "InvalidInput" /\ result' = result
       ELSE /\ pc' = "mac"
            /\ ret' = ret
            /\ result' = ComputeResult(data_check_string, bot_token)
    /\ UNCHANGED <<input, bot_token, preserve_order, value, kv, lines,
                   check_hash, data_check_string>>

\* Lines 59-63.
CompareHash ==
    /\ pc = "mac"
    /\ pc' = "done"
    /\ ret' = Compare(result, check_hash)
    /\ UNCHANGED <<input, bot_token, preserve_order, value, kv, lines,
                   check_hash, data_check_string, result>>

Next == Parse \/ Extract \/ ComputeMac \/ CompareHash

Spec == Init /\ [][Next]_vars

TypeOK ==
    /\ pc \in {"start", "parsed", "extracted", "mac", "done"}
    /\ ret \in {"none", "Ok", "InvalidInput", "InvalidHash"}
    /\ (pc = "done") = (ret # "none")

\* The steps compute what validate computes.
StepsAgree == pc = "done" => ret = Validate(input, bot_token, preserve_order)

-----------------------------------------------------------------------------
(* Properties *)

IsObject == input.kind = "Object"
Done == pc = "done"

\* extract_data_check_string has returned Ok((hash, data_check_string)).
Extracted ==
    \/ pc \in {"extracted", "mac"}
    \/ pc = "done" /\ ret \in {"Ok", "InvalidHash"}

\* The hex text of HMAC-SHA256(key = SHA256(secret), message = msg).
HexTag(secret, msg) == HexEncode(MacFinalize(Sha256Digest(secret), msg))

\* A JSON integer that fits the signed 64-bit range.
InI64(v) ==
    /\ IsInteger(v)
    /\ v.num.tag = "PosInt" => MagLeq(v.num.mag, I64MaxDigits)

\* The (digest, canonical string) pair of a member list, or the error.
Extraction(members) ==
    LET ex == ExtractDataCheckString(FromStr(Object(members), preserve_order))
    IN  <<ex.tag, ex.hash, ex.dcs>>

Run(members, secret) == Validate(Object(members), secret, preserve_order)

(* C1. Round-trip authenticity: a payload whose "hash" is the Text value     *)
(* equal to the hex HMAC-SHA256, under the key SHA256(secret), of the         *)
(* canonical string of its Integer and Text fields other than "hash" (in      *)
(* ascending key order, newline-joined) validates Ok under that secret.       *)
C1_RoundTrip ==
    (/\ Done
     /\ IsObject
     /\ HASH \in FieldKeys(input.members)
     /\ FieldValue(input.members, HASH)
            = VString(HexTag(bot_token, CanonicalString(input.members))))
        => ret = "Ok"

\* The round trip does hold when no Integer field lies beyond i64::MAX.
C1_RoundTripWithinI64 ==
    (/\ Done
     /\ IsObject
     /\ HASH \in FieldKeys(input.members)
     /\ FieldValue(input.members, HASH)
            = VString(HexTag(bot_token, CanonicalString(input.members)))
     /\ \A k \in SignedKeys(input.members) :
            IsInteger(FieldValue(input.members, k))
                => InI64(FieldValue(input.members, k)))
        => ret = "Ok"

(* C3. Wrong key rejection: a payload that validates Ok under one secret     *)
(* yields InvalidHash, never InvalidInput, under any other secret; and        *)
(* whether validate returns InvalidInput does not depend on the secret.       *)
C3_WrongKey ==
    Done =>
        \A s \in Secrets :
            /\ (ret = "Ok" /\ s # bot_token)
                    => Validate(input, s, preserve_order) = "InvalidHash"
            /\ (Validate(input, s, preserve_order) = "InvalidInput")
                    = (ret = "InvalidInput")

C3_Witness == Done /\ IsObject /\ ret = "Ok" /\ Len(lines) > 0

(* C4. Malformed input rejection: a text that is no JSON, or a JSON value    *)
(* that is no object, yields InvalidInput under every secret; no tag is       *)
(* computed or compared for it.                                               *)
C4_Malformed ==
    ~IsObject =>
        /\ pc \in {"start", "parsed", "done"}
        /\ result = <<>>
        /\ Done => ret = "InvalidInput"

C4_Witness == Done /\ input.kind = "Array" /\ value.tag = "Ok"

(* C5. Missing digest rejection: an object with no "hash" key among its      *)
(* fields, the empty object included, yields InvalidInput.                    *)
C5_MissingHash ==
    (Done /\ IsObject /\ HASH \notin FieldKeys(input.members))
        => ret = "InvalidInput"

C5_Witness ==
    /\ Done
    /\ IsObject
    /\ HASH \notin FieldKeys(input.members)
    /\ Len(kv) > 0

(* C9. Integer rendering: every field other than "hash" whose value is a     *)
(* JSON integer, up to the unsigned 64-bit range, has its line in the         *)
(* canonical string, the integer in plain base-10 text.                       *)
C9_IntegerKept ==
    (Extracted /\ IsObject) =>
        \A k \in FieldKeys(input.members) \ {HASH} :
            IsInteger(FieldValue(input.members, k))
                => \E i \in 1..Len(lines) :
                        lines[i] = k \o EQ \o DecimalText(FieldValue(input.members, k))

\* Every integer of the signed 64-bit range is kept and rendered so.
C9_IntegerKeptWithinI64 ==
    (Extracted /\ IsObject) =>
        \A k \in FieldKeys(input.members) \ {HASH} :
            InI64(FieldValue(input.members, k))
                => \E i \in 1..Len(lines) :
                        lines[i] = k \o EQ \o DecimalText(FieldValue(input.members, k))

\* Such a round trip happens: a signed payload with MaxMembers lines.
C1_WitnessWithinI64 ==
    /\ Done
    /\ IsObject
    /\ HASH \in FieldKeys(input.members)
    /\ FieldValue(input.members, HASH)
            = VString(HexTag(bot_token, CanonicalString(input.members)))
    /\ ret = "Ok"
    /\ Len(lines) = MaxMembers

\* The Integer and Text values a field is given.
ScalarValues == {v \in AValues \cup HashValues : IsInteger(v) \/ IsText(v)}

\* The members that are the object's fields: the last occurrence of each key.
FieldIndexes(members) ==
    {i \in 1..Len(members) : i = LastIndex(members, members[i].key)}

UniqueKeys(members) ==
    \A i, j \in 1..Len(members) : members[i].key = members[j].key => i = j

Swap(members, i, j) ==
    [members EXCEPT ![i] = members[j], ![j] = members[i]]

(* C6. Determinism under key order: two objects with the same fields and     *)
(* values listed in a different source order give the same (digest,           *)
(* canonical string) pair and the same result of validate under any secret.   *)
(* Stated for the exchange of two members; every reordering is a sequence of  *)
(* exchanges, each from an input the model also starts from.                  *)
C6_KeyOrder ==
    (Done /\ IsObject /\ UniqueKeys(input.members)) =>
        \A i, j \in 1..Len(input.members) :
            LET other == Swap(input.members, i, j)
            IN  /\ Extraction(other) = Extraction(input.members)
                /\ Extracted =>
                        Extraction(other) = <<"Ok", check_hash, data_check_string>>
                /\ \A s \in Secrets : Run(other, s) = Run(input.members, s)

C6_Witness ==
    /\ Done
    /\ IsObject
    /\ UniqueKeys(input.members)
    /\ preserve_order
    /\ ret = "Ok"
    /\ Len(lines) >= 2
    /\ \E i, j \in 1..Len(input.members) :
            i < j /\ BytesLess(input.members[j].key, input.members[i].key)

\* The kinds of value the canonical string leaves out: arrays, nested
\* objects, booleans, nulls and floating-point numbers.
IsOtherKind(v) ==
    \/ v.kind \in {"Array", "Object", "Bool", "Null"}
    \/ v.kind = "Number" /\ v.num.tag = "Float"

Remove(members, i) == SubSeq(members, 1, i - 1) \o SubSeq(members, i + 1, Len(members))

\* Member i is a field of its own: no other member has its key.
OwnField(members, i) ==
    \A j \in 1..Len(members) : members[j].key = members[i].key => j = i

(* C7. Type filtering: a field other than "hash" whose value is an array, a  *)
(* nested object, a boolean, a null or a floating-point number changes, by    *)
(* being there or not, neither the canonical string nor the result of         *)
(* validate.                                                                  *)
C7_TypeFilter ==
    (Done /\ IsObject) =>
        \A i \in 1..Len(input.members) :
            (/\ input.members[i].key # HASH
             /\ IsOtherKind(input.members[i].value)
             /\ OwnField(input.members, i)) =>
                LET without == Remove(input.members, i)
                IN  /\ Extraction(without) = Extraction(input.members)
                    /\ Extracted =>
                            Extraction(without) = <<"Ok", check_hash, data_check_string>>
                    /\ \A s \in Secrets : Run(without, s) = Run(input.members, s)
                    /\ Run(without, bot_token) = ret

C7_Witness ==
    /\ Done
    /\ IsObject
    /\ ret = "Ok"
    /\ \E i \in 1..Len(input.members) :
            /\ input.members[i].key # HASH
            /\ input.members[i].value = VBool
            /\ OwnField(input.members, i)
    /\ Len(lines) > 0

(* C8. Exclusion: the canonical string has no line for the "hash" field:     *)
(* none of the lines joined into it is a "hash=..." line (no other key        *)
(* begins with "hash="), and there is one line less than scalar fields.       *)
C8_HashExcluded ==
    Extracted =>
        /\ \A i \in 1..Len(lines) : ~StartsWith(lines[i], HASH \o EQ)
        /\ Len(lines) = Len(kv) - 1
        /\ ~StartsWith(data_check_string, HASH \o EQ)

C8_Witness == Done /\ Extracted /\ Len(lines) > 0 /\ check_hash # <<>>

RECURSIVE Offset(_, _)
\* Where line i starts in the joined string: after the lines before it and
\* one separator for each.
Offset(ls, i) == IF i = 1 THEN 0 ELSE Offset(ls, i - 1) + Len(ls[i - 1]) + 1

\* The entry of kv that line i is made of: the "hash" entry is skipped.
EntryOfLine(i) == IF i < KeyIndex(kv, HASH) THEN kv[i] ELSE kv[i + 1]

(* C10. Ordering and uniqueness: the entries of the canonical string are in  *)
(* strictly ascending byte-wise order of key (so each key occurs once), each  *)
(* "key=value", joined by exactly one newline with none before the first or   *)
(* after the last; an entry carries the value of the last occurrence of its   *)
(* key in the source.                                                         *)
C10_Ordering ==
    (Extracted /\ IsObject) =>
        /\ \A i, j \in 1..Len(kv) : i < j => BytesLess(kv[i].key, kv[j].key)
        /\ Len(lines) = Len(kv) - 1
        /\ \A i \in 1..Len(lines) :
                /\ lines[i] = EntryOfLine(i).key \o EQ \o EntryOfLine(i).val
                /\ SubSeq(data_check_string, Offset(lines, i) + 1,
                          Offset(lines, i) + Len(lines[i])) = lines[i]
                /\ i < Len(lines) =>
                        data_check_string[Offset(lines, i) + Len(lines[i]) + 1] = 10
        /\ Len(data_check_string) =
                IF lines = <<>> THEN 0
                ELSE Offset(lines, Len(lines)) + Len(lines[Len(lines)])
        /\ \A i \in 1..Len(kv) :
                /\ kv[i].key \in FieldKeys(input.members)
                /\ LET v == FieldValue(input.members, kv[i].key)
                   IN  (IsInteger(v) \/ IsText(v)) /\ kv[i].val = FieldText(v)

C10_Witness ==
    /\ Done
    /\ Extracted
    /\ IsObject
    /\ Len(lines) > 0
    /\ \E i, j \in 1..Len(input.members) :
            /\ i < j
            /\ input.members[i].key = input.members[j].key
            /\ input.members[i].key = EntryOfLine(1).key
            /\ IsText(input.members[i].value)
            /\ IsInteger(input.members[j].value)

=============================================================================
